---- MODULE Spec2Model ----
(***************************************************************************)
(* Model of the resolution engine of rastrear_saojoao.py: the fallback     *)
(* chain of _consultar, the scorer and field extractors it calls, the      *)
(* single lookup buscar_item and the batch loop processar_dataframe.       *)
(*                                                                         *)
(* A Python str is a sequence of one-character strings.  The em dash is    *)
(* the character written "EMDASH".  A Python value that may be a str,      *)
(* None, a number or a missing key is a record [k, v, n]: see Str, None,   *)
(* Num and Absent below.  A price is a whole number of cents.              *)
(***************************************************************************)
EXTENDS Integers, Sequences, FiniteSets, TLC

(***************************************************************************)
(* Python values                                                           *)
(***************************************************************************)
Str(s) == [k |-> "str", v |-> s, n |-> 0]
None == [k |-> "null", v |-> <<>>, n |-> 0]
Absent == [k |-> "absent", v |-> <<>>, n |-> 0]
Num(c) == [k |-> "num", v |-> <<>>, n |-> c]

\* bool(x) of a Python value: a non-empty str or a non-zero number
Truthy(x) == (x.k = "str" /\ x.v # <<>>) \/ (x.k = "num" /\ x.n # 0)

(***************************************************************************)
(* Characters and the str methods the program uses                         *)
(***************************************************************************)
UpperCase == <<"A","B","C","D","E","F","G","H","I","J","K","L","M",
               "N","O","P","Q","R","S","T","U","V","W","X","Y","Z","Í","Ã","É">>
LowerCase == <<"a","b","c","d","e","f","g","h","i","j","k","l","m",
               "n","o","p","q","r","s","t","u","v","w","x","y","z","í","ã","é">>
Digits == {"0","1","2","3","4","5","6","7","8","9"}
DigitSeq == <<"0","1","2","3","4","5","6","7","8","9">>
Whitespace == {" ", "\t"}
Letters == {UpperCase[j] : j \in 1..Len(UpperCase)} \cup
           {LowerCase[j] : j \in 1..Len(LowerCase)} \cup {"µ"}
\* \w of the re module
WordChars == Letters \cup Digits \cup {"_"}

\* str.lower() on one character
LowerChar(c) ==
  IF \E j \in 1..Len(UpperCase) : UpperCase[j] = c
  THEN LowerCase[CHOOSE j \in 1..Len(UpperCase) : UpperCase[j] = c]
  ELSE c

\* str.lower()
Lower(s) == [j \in 1..Len(s) |-> LowerChar(s[j])]

\* str.upper() on one character
UpperChar(c) ==
  IF \E j \in 1..Len(LowerCase) : LowerCase[j] = c
  THEN UpperCase[CHOOSE j \in 1..Len(LowerCase) : LowerCase[j] = c]
  ELSE c

\* str.upper()
Upper(s) == [j \in 1..Len(s) |-> UpperChar(s[j])]

RECURSIVE LStrip(_)
LStrip(s) == IF s # <<>> /\ Head(s) \in Whitespace THEN LStrip(Tail(s)) ELSE s

RECURSIVE RStrip(_)
RStrip(s) ==
  IF s # <<>> /\ s[Len(s)] \in Whitespace THEN RStrip(SubSeq(s, 1, Len(s) - 1)) ELSE s

\* str.strip()
Strip(s) == RStrip(LStrip(s))

\* str.isdigit()
IsDigit(s) == s # <<>> /\ \A j \in 1..Len(s) : s[j] \in Digits

\* whether u occurs in s starting at position p
StartsAt(s, p, u) ==
  /\ p >= 1
  /\ p + Len(u) - 1 <= Len(s)
  /\ \A j \in 1..Len(u) : s[p + j - 1] = u[j]

\* u in s
Contains(s, u) == \E p \in 1..(Len(s) + 1) : StartsAt(s, p, u)

\* str.replace(a, b) for one-character a and b
ReplaceChar(s, a, b) == [j \in 1..Len(s) |-> IF s[j] = a THEN b ELSE s[j]]

\* sep.join(parts)
RECURSIVE Join(_, _)
Join(parts, sep) ==
  IF parts = <<>> THEN <<>>
  ELSE IF Len(parts) = 1 THEN parts[1]
  ELSE parts[1] \o sep \o Join(Tail(parts), sep)

\* s.split(c) for a one-character separator: the pieces between the separators
RECURSIVE SplitOn(_, _)
SplitOn(s, c) ==
  IF \E j \in 1..Len(s) : s[j] = c
  THEN LET p == CHOOSE j \in 1..Len(s) : s[j] = c /\ \A h \in 1..(j - 1) : s[h] # c
       IN  <<SubSeq(s, 1, p - 1)>> \o SplitOn(SubSeq(s, p + 1, Len(s)), c)
  ELSE <<s>>

\* re.split(r"\s+", s) with the empty pieces dropped
RECURSIVE Tokens(_)
Tokens(s) ==
  LET r == LStrip(s)
  IN  IF r = <<>> THEN <<>>
      ELSE LET e == IF \E j \in 1..Len(r) : r[j] \in Whitespace
                    THEN (CHOOSE j \in 1..Len(r) :
                            r[j] \in Whitespace /\ \A h \in 1..(j - 1) : r[h] \notin Whitespace) - 1
                    ELSE Len(r)
           IN  <<SubSeq(r, 1, e)>> \o Tokens(SubSeq(r, e + 1, Len(r)))

\* re.sub(r"\s+", " ", s)
RECURSIVE CollapseWs(_)
CollapseWs(s) ==
  IF s = <<>> THEN <<>>
  ELSE IF Head(s) \in Whitespace THEN <<" ">> \o CollapseWs(LStrip(s))
  ELSE <<Head(s)>> \o CollapseWs(Tail(s))

(***************************************************************************)
(* Term Normalizer                                                         *)
(***************************************************************************)
NaN == <<"n","a","n">>
NoneWord == <<"n","o","n","e">>

\* the body of _limpa: None, "nan" and "none" (any case) become "", anything
\* else is stripped
Limpa(v) ==
  IF v.k \in {"null", "absent"} THEN <<>>
  ELSE LET s == Strip(v.v)
       IN  IF Lower(s) \in {NaN, NoneWord} THEN <<>> ELSE s

\* the identifiers of the inputs: the cells of the columns EAN and NOME, the
\* queries of buscar_item, the code of the code-only rows
Codigos == {None, Str(<<" ","7","8","9","1","0","5","8","0">>)}
Nomes == {Str(<<"n","a","n">>), Str(<<"D","i","p","i","r","o","n","a"," ","5","0","0","m","g">>)}
Consultas == {<<>>, <<"5","0","0","m","g">>, <<"7","8","9","1","0","5","8","0">>, <<"1","2","3","4","5","6","7">>,
              <<"D","i","p","i","r","o","n","a"," ","5","0","0","m","g">>}
CODIGO == <<"7","8","9","1","0","5","8","0","1","4","6","8","4">>
\* the cells a table of these inputs holds, a missing column read as ""
Celulas == Codigos \cup Nomes \cup {Str(CODIGO), Str(<<>>), None}

\* _limpa on these cells
Limpos == [v \in Celulas |-> Limpa(v)]

\* _limpa
_limpa(v) == IF v \in Celulas THEN Limpos[v] ELSE Limpa(v)

\* the terms and scoring references _consultar is called with for these inputs
Termos ==
  LET lidos == Consultas \cup {CODIGO} \cup {_limpa(c) : c \in Codigos \cup Nomes}
  IN  lidos \cup {Strip(x) : x \in lidos}

\* the alternatives of (mg|g|mcg|µg|ml|kg|l), in the order the pattern tries them
UnidadesMedida == << <<"m","g">>, <<"g">>, <<"m","c","g">>, <<"µ","g">>,
                     <<"m","l">>, <<"k","g">>, <<"l">> >>
\* the alternatives of (comprimidos?|cp|caps?|tabletes?), an optional s tried first
UnidadesForma == << <<"c","o","m","p","r","i","m","i","d","o","s">>,
                    <<"c","o","m","p","r","i","m","i","d","o">>,
                    <<"c","p">>,
                    <<"c","a","p","s">>, <<"c","a","p">>,
                    <<"t","a","b","l","e","t","e","s">>,
                    <<"t","a","b","l","e","t","e">> >>

\* \b before position p of s (p in 1..Len(s)+1)
Boundary(s, p) ==
  LET before == p > 1 /\ s[p - 1] \in WordChars
      after == p <= Len(s) /\ s[p] \in WordChars
  IN  before # after

\* the position after the run of digits that starts at p
RECURSIVE DigitsEnd(_, _)
DigitsEnd(s, p) == IF p <= Len(s) /\ s[p] \in Digits THEN DigitsEnd(s, p + 1) ELSE p

\* \b\d+\s?(u1|u2|..)\b matched at position p of s: the position after the
\* match, or 0 when the pattern does not match there
MatchQtd(s, p, units) ==
  IF ~(p <= Len(s) /\ s[p] \in Digits /\ Boundary(s, p)) THEN 0
  ELSE LET d == DigitsEnd(s, p)
           u == IF d <= Len(s) /\ s[d] \in Whitespace THEN d + 1 ELSE d
           ok == {j \in 1..Len(units) :
                    StartsAt(s, u, units[j]) /\ Boundary(s, u + Len(units[j]))}
       IN  IF ok = {} THEN 0
           ELSE u + Len(units[CHOOSE j \in ok : \A h \in ok : j <= h])

\* re.sub(pattern, " ", s), scanning s from position p
RECURSIVE SubQtd(_, _, _)
SubQtd(s, p, units) ==
  IF p > Len(s) THEN <<>>
  ELSE LET e == MatchQtd(s, p, units)
       IN  IF e = 0 THEN <<s[p]>> \o SubQtd(s, p + 1, units)
           ELSE <<" ">> \o SubQtd(s, e, units)

\* the body of _term_simplify
Simplifica(term) ==
  LET t0 == Lower(term)
      t1 == SubQtd(t0, 1, UnidadesMedida)
      t2 == SubQtd(t1, 1, UnidadesForma)
      t3 == Strip(CollapseWs(t2))
  IN  IF t3 # <<>> THEN t3 ELSE term

\* _term_simplify on the terms of the inputs
Simplificados == [term \in Termos |-> Simplifica(term)]

\* _term_simplify
_term_simplify(term) == IF term \in Termos THEN Simplificados[term] ELSE Simplifica(term)

(***************************************************************************)
(* Candidate products                                                      *)
(*                                                                         *)
(* A candidate is the decoded JSON object: productName, linkText and Price *)
(* (the value at items[0].sellers[0].commertialOffer.Price, Absent when    *)
(* any step of that path is missing) are Python values, categoryTree is    *)
(* the list of its nodes' name values (empty when the key is missing or    *)
(* not a non-empty list), categories the list of path strings (empty when  *)
(* missing), outros whether the object has any other key.  The names and   *)
(* the slug range over str, None and missing; the price over numbers, None *)
(* and missing.                                                            *)
(***************************************************************************)
Produto(nome, slug, tree, cats, price, outros) ==
  [productName |-> nome, linkText |-> slug, categoryTree |-> tree,
   categories |-> cats, Price |-> price, outros |-> outros]

\* bool(prod) of a candidate: an object with no key at all is falsy
ProdTruthy(prod) ==
  \/ prod.productName.k # "absent"
  \/ prod.linkText.k # "absent"
  \/ prod.categoryTree # <<>>
  \/ prod.categories # <<>>
  \/ prod.Price.k # "absent"
  \/ prod.outros

\* what a call returns: a value, or an exception with its message
Ok(val) == [exc |-> FALSE, msg |-> <<>>, val |-> val]
Raise(msg, val) == [exc |-> TRUE, msg |-> msg, val |-> val]

MsgLenNone == <<"o","b","j","e","c","t"," ","o","f"," ","t","y","p","e"," ","'","N","o","n","e","T","y","p","e","'"," ","h","a","s"," ","n","o"," ","l","e","n","(",")">>

(***************************************************************************)
(* Field Extractor                                                         *)
(***************************************************************************)
\* the module's globals, which every function reads
VARIABLE modulo

HEADERS == [UserAgent |-> "Mozilla/5.0", Accept |-> "application/json"]
\* PAUSA = 0.5 s, in milliseconds
PAUSA == 500
BASE == <<"h","t","t","p","s",":","/","/","w","w","w",".","s","a","o","j","o","a","o","f","a","r","m","a","c","i","a","s",".","c","o","m",".","b","r">>
NAO_ENCONTRADO == <<"P","r","o","d","u","t","o"," ","n","ã","o"," ","e","n","c","o","n","t","r","a","d","o">>
TRAVESSAO == <<"EMDASH">>
SEM_RESULTADOS == <<"S","e","m"," ","r","e","s","u","l","t","a","d","o","s">>
SEM_MATCH == <<"S","e","m"," ","m","a","t","c","h">>
LINHA_VAZIA == <<"L","i","n","h","a"," ","v","a","z","i","a">>
ERRO == <<"E","r","r","o",":"," ">>
INICIO == <<"i","n","í","c","i","o">>
SETA == <<" ",">"," ">>

\* the decimal digits of a natural number
RECURSIVE Decimal(_)
Decimal(m) == IF m < 10 THEN <<DigitSeq[m + 1]>> ELSE Decimal(m \div 10) \o <<DigitSeq[(m % 10) + 1]>>

\* the "," grouping of f"{n:,}", already written with the "." it is replaced by
RECURSIVE Milhares(_)
Milhares(d) ==
  IF Len(d) <= 3 THEN d
  ELSE Milhares(SubSeq(d, 1, Len(d) - 3)) \o <<".">> \o SubSeq(d, Len(d) - 2, Len(d))

\* the price left as float formatting writes it, "." before the decimals
PrecoSemTroca(v) ==
  IF v.k = "num"
  THEN Str(<<"R","$"," ">> \o Decimal(v.n \div 100) \o <<".">> \o
           <<DigitSeq[((v.n \div 10) % 10) + 1], DigitSeq[(v.n % 10) + 1]>>)
  ELSE Str(NAO_ENCONTRADO)

\* _preco_br: "R$ " and the number with "." between thousands and "," before
\* the two decimals; the sentinel when float(v) raises
_preco_br(v) ==
  IF v.k = "num"
  THEN Str(<<"R","$"," ">> \o Milhares(Decimal(v.n \div 100)) \o <<",">> \o
           <<DigitSeq[((v.n \div 10) % 10) + 1], DigitSeq[(v.n % 10) + 1]>>)
  ELSE Str(NAO_ENCONTRADO)

\* the price read as the offer holds it, a missing one left missing
PrecoCru(prod) == prod.Price

\* _price_from_product: float(Price or 0), and 0.0 when anything raises
_price_from_product(prod) == IF prod.Price.k = "num" THEN prod.Price ELSE Num(0)

\* urllib.parse.quote of one character: letters, digits and _.-~/ are kept,
\* the other characters of the names used here become their UTF-8 escapes
\* (the last case is the space)
SafeChars == {LowerCase[j] : j \in 1..26} \cup {UpperCase[j] : j \in 1..26} \cup Digits \cup
             {"_", ".", "-", "~", "/"}
QuoteChar(c) ==
  IF c \in SafeChars THEN <<c>>
  ELSE IF c = "ã" THEN <<"%","C","3","%","A","3">>
  ELSE IF c = "í" THEN <<"%","C","3","%","A","D">>
  ELSE IF c = "é" THEN <<"%","C","3","%","A","9">>
  ELSE IF c = "µ" THEN <<"%","C","2","%","B","5">>
  ELSE IF c = "\t" THEN <<"%","0","9">>
  ELSE IF c = "EMDASH" THEN <<"%","E","2","%","8","0","%","9","4">>
  ELSE <<"%","2","0">>

\* urllib.parse.quote
RECURSIVE Quote(_)
Quote(s) == IF s = <<>> THEN <<>> ELSE QuoteChar(Head(s)) \o Quote(Tail(s))

\* _link_from_product with the mistake of returning the raw linkText value
LinkSemDefault(prod) == prod.linkText

\* _link_from_product: BASE/<slug>/p, the slug being linkText or, when that is
\* missing or empty, the quoted lower-cased name with "-" for " "
_link_from_product(prod) ==
  LET nome == IF Truthy(prod.productName) THEN prod.productName.v ELSE <<>>
      link_text == IF Truthy(prod.linkText) THEN prod.linkText.v
                   ELSE Quote(ReplaceChar(Strip(Lower(nome)), " ", "-"))
  IN  Str(BASE \o <<"/">> \o link_text \o <<"/","p">>)

\* the elements of a sequence that satisfy keep, in order
RECURSIVE SelectNomes(_)
SelectNomes(tree) ==
  IF tree = <<>> THEN <<>>
  ELSE IF Truthy(Head(tree)) THEN <<Head(tree).v>> \o SelectNomes(Tail(tree))
  ELSE SelectNomes(Tail(tree))

RECURSIVE SemInicioTree(_)
SemInicioTree(nomes) ==
  IF nomes = <<>> THEN <<>>
  ELSE IF Lower(Strip(Head(nomes))) # INICIO THEN <<Head(nomes)>> \o SemInicioTree(Tail(nomes))
  ELSE SemInicioTree(Tail(nomes))

RECURSIVE Partes(_)
Partes(segs) ==
  IF segs = <<>> THEN <<>>
  ELSE IF Lower(Head(segs)) # INICIO
       THEN <<Strip(ReplaceChar(Head(segs), "-", " "))>> \o Partes(Tail(segs))
  ELSE Partes(Tail(segs))

\* s.strip("/")
RECURSIVE StripSlash(_)
StripSlash(s) ==
  IF s # <<>> /\ Head(s) = "/" THEN StripSlash(Tail(s))
  ELSE IF s # <<>> /\ s[Len(s)] = "/" THEN StripSlash(SubSeq(s, 1, Len(s) - 1))
  ELSE s

\* max(cats, key=len): the first of the longest paths
MaxLen(cats) ==
  cats[CHOOSE j \in 1..Len(cats) :
         /\ \A h \in 1..Len(cats) : Len(cats[h]) <= Len(cats[j])
         /\ \A h \in 1..(j - 1) : Len(cats[h]) < Len(cats[j])]

\* _breadcrumb: the tree's names without "início", else the longest category
\* path's segments without "início", else the em dash
_breadcrumb(prod) ==
  LET nomes == SemInicioTree(SelectNomes(prod.categoryTree))
      partes == IF prod.categories = <<>> THEN <<>>
                ELSE Partes(SplitOn(StripSlash(MaxLen(prod.categories)), "/"))
  IN  IF nomes # <<>> THEN Str(Join(nomes, SETA))
      ELSE IF partes # <<>> THEN Str(Join(partes, SETA))
      ELSE Str(TRAVESSAO)

(***************************************************************************)
(* Match Scorer                                                            *)
(***************************************************************************)
\* p.get("productName", "") or ""
NomeOuVazio(prod) == IF Truthy(prod.productName) THEN prod.productName.v ELSE <<>>

\* how many of the tokens occur in the candidate's lower-cased name
Acertos(prod, tokens) ==
  Cardinality({j \in 1..Len(tokens) : Contains(Lower(NomeOuVazio(prod)), tokens[j])})

\* len(p.get("productName", ""))
LenNome(prod) == IF prod.productName.k = "str" THEN Len(prod.productName.v) ELSE 0

\* score(a) <= score(b) on the keys (-acertos, len(name))
Melhor(a, b, tokens) ==
  \/ Acertos(a, tokens) > Acertos(b, tokens)
  \/ Acertos(a, tokens) = Acertos(b, tokens) /\ LenNome(a) <= LenNome(b)

\* _best_match: [k |-> "none"] for an empty list, else the first candidate of
\* the stable sort by score; len(None) raises when a productName is null
_best_match(lista, termo_ref) ==
  LET tokens == Tokens(Lower(termo_ref))
  IN  IF lista = <<>> THEN [k |-> "none", j |-> 0]
      ELSE IF \E j \in 1..Len(lista) : lista[j].productName.k = "null"
           THEN [k |-> "raise", j |-> 0]
      ELSE [k |-> "prod",
            j |-> CHOOSE j \in 1..Len(lista) :
                    /\ \A h \in 1..Len(lista) : Melhor(lista[j], lista[h], tokens)
                    /\ \A h \in 1..(j - 1) : ~Melhor(lista[h], lista[j], tokens)]


(***************************************************************************)
(* Catalog Client: what one remote query can answer                        *)
(***************************************************************************)
P_COMPLETO ==
  Produto(Str(<<"D","i","p","i","r","o","n","a"," ","5","0","0","m","g"," ","M","e","d","l","e","y">>),
          Str(<<"d","i","p","i","r","o","n","a","-","5","0","0","m","g","-","m","e","d","l","e","y">>),
          <<Str(<<"I","n","í","c","i","o">>), Str(<<"M","e","d","i","c","a","m","e","n","t","o","s">>),
            None, Str(<<"A","n","a","l","g","é","s","i","c","o","s">>)>>,
          <<>>, Num(123456), TRUE)
P_ESPARSO ==
  Produto(Str(<<"D","i","p","i","r","o","n","a">>), Absent, <<>>,
          << <<"/","I","n","í","c","i","o","/">>,
             <<"/","I","n","í","c","i","o","/","M","e","d","i","c","a","m","e","n","t","o","s","/","D","o","r","-","e","-","F","e","b","r","e","/">> >>,
          Absent, TRUE)
P_SEM_NOME == Produto(None, Str(<<"s","e","m","-","n","o","m","e">>), <<>>, <<>>, Num(500), TRUE)
P_VAZIO == Produto(Absent, Absent, <<>>, <<>>, Absent, FALSE)

\* requests.get(...).json() raised (timeout, connection error, body that is not JSON)
Falha == [ok |-> FALSE, items |-> <<>>]
Lista(items) == [ok |-> TRUE, items |-> items]

\* one HTTP exchange: the call timed out, or a status came back with a body that
\* is JSON (the list items) or is not
Http(timeout, status, json, items) ==
  [timeout |-> timeout, status |-> status, json |-> json, items |-> items]
Timeout == Http(TRUE, 0, FALSE, <<>>)

\* requests.get(url, headers=HEADERS, timeout=25).json(): the timeout raises, a
\* body that is not JSON raises, and the status is never looked at
Json(h) == IF h.timeout \/ ~h.json THEN Falha ELSE Lista(h.items)
_search_ean(h) == Json(h)
_search_term(h) == Json(h)

Respostas == {Timeout,
              Http(FALSE, 200, FALSE, <<>>),
              Http(FALSE, 500, TRUE, <<>>),
              Http(FALSE, 200, TRUE, <<>>),
              Http(FALSE, 200, TRUE, <<P_ESPARSO, P_COMPLETO>>),
              Http(FALSE, 200, TRUE, <<P_SEM_NOME>>),
              Http(FALSE, 200, TRUE, <<P_VAZIO>>)}

MEDICAMENTOS == <<"M","e","d","i","c","a","m","e","n","t","o","s">>
ANALGESICOS == <<"A","n","a","l","g","é","s","i","c","o","s">>
\* the product with its categories as a tree of named nodes
P_CENARIO ==
  Produto(Str(<<"D","i","p","i","r","o","n","a"," ","M","o","n","o","i","d","r","a","t","a","d","a"," ","5","0","0","m","g">>),
          Str(<<"d","i","p","i","r","o","n","a","-","m","o","n","o","i","d","r","a","t","a","d","a","-","5","0","0","m","g">>),
          <<Str(<<"I","n","í","c","i","o">>), Str(MEDICAMENTOS), Str(ANALGESICOS)>>,
          <<>>, Num(1631), TRUE)
\* the same product with its categories as one slash-delimited path
P_CENARIO_CAMINHO ==
  Produto(P_CENARIO.productName, P_CENARIO.linkText, <<>>,
          << <<"/","I","n","í","c","i","o","/","M","e","d","i","c","a","m","e","n","t","o","s","/","A","n","a","l","g","é","s","i","c","o","s","/">> >>,
          Num(1631), TRUE)
RespostasCenario == {Timeout,
                     Http(FALSE, 200, TRUE, <<>>),
                     Http(FALSE, 200, TRUE, <<P_CENARIO>>),
                     Http(FALSE, 200, TRUE, <<P_CENARIO_CAMINHO>>)}

(***************************************************************************)
(* Resolution Strategy: the pieces of _consultar                           *)
(***************************************************************************)
MinEanLen == 8

Resultado(preco, link, classif, obs) ==
  [Preco |-> preco, Link |-> link, Classificacao |-> classif, Observacao |-> obs]
NaoEncontrado(obs) == Resultado(Str(NAO_ENCONTRADO), Str(<<>>), Str(TRAVESSAO), Str(obs))
\* the dict {}
DictVazio == Resultado(Absent, Absent, Absent, Absent)

\* try: produtos = _search_x(..) with the failure re-raised instead of swallowed
TrySearchPropaga(r) == [exc |-> ~r.ok, produtos |-> r.items]

\* try: produtos = _search_x(..) / except: produtos = []
TrySearch(r) == [exc |-> FALSE, produtos |-> IF r.ok THEN r.items ELSE <<>>]

\* the code search attempted for every long term, digits or not
EanGateSemDigito(prods, termo) == prods = <<>> /\ Len(termo) >= MinEanLen

\* the code search attempted whatever the term search found
EanGateSempre(prods, termo) == IsDigit(termo) /\ Len(termo) >= MinEanLen

\* the code search attempted for every all-digit term, however short
EanGateCurto(prods, termo) == prods = <<>> /\ IsDigit(termo)

\* if not produtos and t.isdigit() and len(t) >= 8
EanGate(prods, termo) == prods = <<>> /\ IsDigit(termo) /\ Len(termo) >= MinEanLen

\* the simplified search attempted whatever was found before
SimplGateSempre(prods, termo) == _term_simplify(termo) # termo

\* if not produtos: t2 = _term_simplify(t); if t2 != t
SimplGate(prods, termo) == prods = <<>> /\ _term_simplify(termo) # termo

\* the not-found result carrying the note of the no-match result
SemResultadosTrocado == NaoEncontrado(SEM_MATCH)

\* the result returned when no search gave a candidate
SemResultadosDict == NaoEncontrado(SEM_RESULTADOS)

\* the end of _consultar: the not-found result, the scorer, the extraction
DesfechoDe(prods, termo, ref) ==
  IF prods = <<>> THEN Ok(SemResultadosDict)
  ELSE LET m == _best_match(prods, IF ref # <<>> THEN ref ELSE termo)
       IN  IF m.k = "raise" THEN Raise(MsgLenNone, DictVazio)
           ELSE IF m.k = "none" \/ ~ProdTruthy(prods[m.j]) THEN Ok(NaoEncontrado(SEM_MATCH))
           ELSE Ok(Resultado(_preco_br(_price_from_product(prods[m.j])),
                             _link_from_product(prods[m.j]),
                             _breadcrumb(prods[m.j]),
                             Str(TRAVESSAO)))

\* the candidate lists the catalogs of the inputs answer with
ListasCatalogo == {h.items : h \in Respostas \cup RespostasCenario}

\* the end of _consultar for these lists, terms and references
Desfechos ==
  [prods \in ListasCatalogo, termo \in Termos, ref \in Termos |->
     DesfechoDe(prods, termo, ref)]

\* lines 91-96 of _consultar
Desfecho(prods, termo, ref) ==
  IF prods \in ListasCatalogo /\ termo \in Termos /\ ref \in Termos
  THEN Desfechos[prods, termo, ref]
  ELSE DesfechoDe(prods, termo, ref)

(***************************************************************************)
(* Inputs                                                                  *)
(***************************************************************************)
MaxRows == 2

Linhas == [EAN : Codigos, NOME : Nomes]
Planilhas == UNION {[1..m -> Linhas] : m \in 0..MaxRows}
\* the input tables: the header as the file has it, the rows as cells
Tabela(columns, rows) == [columns |-> columns, rows |-> rows]
COLS_AMBAS == << <<"e","a","n"," ">>, <<"N","o","m","e">> >>
COLS_UMA == << <<"P","r","o","d","u","t","o">> >>
COLS_OUTRAS == << <<"P","r","o","d","u","t","o">>, <<"V","a","l","o","r">> >>
Tabelas ==
  {Tabela(COLS_AMBAS, [j \in 1..Len(p) |-> <<p[j].EAN, p[j].NOME>>]) : p \in Planilhas}
  \cup {Tabela(COLS_UMA, [j \in 1..Len(p) |-> <<p[j].NOME>>]) : p \in Planilhas}
  \cup {Tabela(COLS_OUTRAS, [j \in 1..Len(p) |-> <<p[j].NOME, p[j].EAN>>]) : p \in Planilhas}
  \cup {Tabela(<<>>, <<>>)}

(***************************************************************************)
(* State                                                                   *)
(***************************************************************************)
VARIABLES
  catalogo,    \* the HTTP exchanges the remote catalog can answer a query with
  df_in,       \* processar_dataframe's argument: the caller's table
  arg,         \* the argument of the pure function a function-level run applies
  res,         \* what that function returned or raised
  troca,       \* history: the last HTTP exchange and what the client made of it
  op,          \* the public operation called: "processar_dataframe" or "buscar_item"
  df,          \* processar_dataframe's copy of the table, its columns renamed: a
               \* sequence of rows [EAN, NOME]
  q,           \* buscar_item's query
  i,           \* the row the loop is at (1-based)
  pc,          \* where control is
  saida,       \* the rows produced so far
  att,         \* which call of _consultar is running: "ean", "nome" or "q"
  t,           \* _consultar's stripped term
  nome_ref,    \* _consultar's scoring reference
  produtos,    \* _consultar's candidate list
  ret,         \* what the last call of _consultar returned or raised
  hist,        \* history: the remote queries of the call of _consultar that is
               \* running or has just returned
  consultaram, \* history: the rows that issued a remote query since the last pause
  tentativas,  \* history: the calls of _consultar made since the last pause, each
               \* with the number n of remote queries it issued
  npausas,     \* history: how many pauses were taken
  _LAST_XLSX_PATH, \* the serving layer's global: 0 for None, else the path of a
               \* generated file, which is its index in arquivos
  arquivos,    \* the temporary directory: the workbooks written so far
  laco,        \* the client whose /buscar or /upload handler holds the event
               \* loop, "-" when it is free
  pedidos,     \* each client's request: where it is, its input, its response
  concluido    \* history: the path generated by the last /buscar or /upload
               \* whose 200 response was delivered, 0 when there is none

vars == <<modulo, catalogo, df_in, arg, res, troca, op, df, q, i, pc, saida, att, t,
          nome_ref, produtos, ret, hist, consultaram,
          tentativas, npausas, _LAST_XLSX_PATH, arquivos, laco, pedidos, concluido>>

\* the state of the serving layer
servidor == <<_LAST_XLSX_PATH, arquivos, laco, pedidos, concluido>>

\* BASE, HEADERS and PAUSA as the module defines them
Modulo == [BASE |-> BASE, HEADERS |-> HEADERS, PAUSA |-> PAUSA]

SemArg == [f |-> "-", lista |-> <<>>, ref |-> <<>>, prod |-> P_VAZIO]
SemRes == [k |-> "-", j |-> 0, v |-> None]
\* no exchange made yet
Nenhuma == [fn |-> "-", http |-> Timeout, out |-> Falha]

\* the state before any call: nothing read, nothing produced
Zerado ==
  /\ modulo = Modulo
  /\ res = SemRes
  /\ troca = Nenhuma
  /\ df = <<>>
  /\ i = 0
  /\ pc = "start"
  /\ saida = <<>>
  /\ att = "-"
  /\ t = <<>>
  /\ nome_ref = <<>>
  /\ produtos = <<>>
  /\ ret = Ok(DictVazio)
  /\ hist = <<>>
  /\ consultaram = {}
  /\ tentativas = <<>>
  /\ npausas = 0

\* the clients of the serving layer
Clientes == {"a", "b"}
\* no rows: a client that holds no response to follow
\* what a request carries: the query of /buscar, or the uploaded file (whether
\* its name ends in .xlsx, whether its bytes are a workbook, the table in it)
Entrada(consulta, xlsx, legivel, tabela) ==
  [q |-> consulta, xlsx |-> xlsx, legivel |-> legivel, tabela |-> tabela]
SemEntrada == Entrada(<<>>, FALSE, FALSE, Tabela(<<>>, <<>>))
\* a client with no request under way; guia is the path of the file generated
\* for the last 200 response to its own /buscar or /upload, 0 when it has none
SemPedido ==
  [fase |-> "livre", rota |-> "-", entrada |-> SemEntrada, status |-> 0, path |-> 0,
   resultados |-> <<>>, guia |-> 0]

\* the resolution engine called directly, with no serving layer around it
SemServidor ==
  /\ _LAST_XLSX_PATH = 0
  /\ arquivos = <<>>
  /\ laco = "-"
  /\ pedidos = [c \in Clientes |-> SemPedido]
  /\ concluido = 0

\* what no step of the resolution engine writes
fixos == <<modulo, catalogo, df_in, arg, res, servidor>>

Init ==
  /\ catalogo = Respostas
  /\ arg = SemArg
  /\ \/ op = "processar_dataframe" /\ df_in \in Tabelas /\ q = <<>>
     \/ op = "buscar_item" /\ df_in = Tabela(<<>>, <<>>) /\ q \in Consultas
  /\ Zerado
  /\ SemServidor

(***************************************************************************)
(* Batch Resolver and single lookup: helpers                               *)
(***************************************************************************)
\* ean = _limpa(row.get("EAN", "")), nome = _limpa(row.get("NOME", ""))
EanDe(row) == _limpa(row.EAN)
NomeDe(row) == _limpa(row.NOME)
\* termo = ean or nome
TermoDe(row) == IF EanDe(row) # <<>> THEN EanDe(row) ELSE NomeDe(row)

\* the test of an empty row made with "is None", which no cleaned value passes
EhLinhaVaziaNunca(termo) == FALSE

\* a row whose identifier an earlier output row already holds skipped as empty
EhLinhaVaziaOuRepetida(termo) ==
  \/ termo = <<>>
  \/ \E j \in 1..Len(saida) : termo \in {saida[j].EAN.v, saida[j].NOME.v}

\* if not termo
EhLinhaVazia(termo) == termo = <<>>

\* the retry decided on an empty dados alone
TentaNomeSoVazio(dados) == dados = DictVazio

\* if (not dados) or (dados.get("Preco") == "Produto não encontrado")
TentaNome(dados) == dados = DictVazio \/ dados.Preco = Str(NAO_ENCONTRADO)

\* the handler writing the note of the not-found result instead of the error
DadosDeSemErro(r) == IF r.exc THEN NaoEncontrado(SEM_RESULTADOS) ELSE r.val

\* except Exception as e: dados = {..., "Observacao": f"Erro: {e}"}
DadosDe(r) == IF r.exc THEN NaoEncontrado(ERRO \o r.msg) ELSE r.val

\* the output row with NOME left blank when the input had none
LinhaSaidaSemTermo(row, dados) ==
  [EAN |-> Str(EanDe(row)), NOME |-> Str(NomeDe(row)),
   Preco |-> dados.Preco, Link |-> dados.Link,
   Classificacao |-> dados.Classificacao, Observacao |-> dados.Observacao]

\* {"EAN": ean, "NOME": nome or termo, **dados}
LinhaSaida(row, dados) ==
  [EAN |-> Str(EanDe(row)),
   NOME |-> Str(IF NomeDe(row) # <<>> THEN NomeDe(row) ELSE TermoDe(row)),
   Preco |-> dados.Preco, Link |-> dados.Link,
   Classificacao |-> dados.Classificacao, Observacao |-> dados.Observacao]

\* d.get(key, default)
Get(x, default) == IF x.k = "absent" THEN Str(default) ELSE x

\* one remote query, as the history records it: n candidates, or -1 for a failure
Consulta(kind, termo, r) ==
  [kind |-> kind, row |-> i, att |-> att, term |-> termo,
   n |-> IF r.ok THEN Len(r.items) ELSE -1]

\* entering _consultar(termo, ref): produtos = [], t = termo.strip()
Chama(termo, ref, a) ==
  /\ att' = a
  /\ t' = Strip(termo)
  /\ nome_ref' = ref
  /\ produtos' = <<>>
  /\ ret' = Ok(DictVazio)
  /\ hist' = <<>>
  /\ pc' = "search_term"

\* saida.append(..), then on to time.sleep
Anexa(dados) ==
  /\ saida' = Append(saida, LinhaSaida(df[i], dados))
  /\ pc' = "pause"
  /\ att' = "-"
  /\ ret' = Ok(DictVazio)
  /\ hist' = <<>>
  /\ t' = <<>>
  /\ nome_ref' = <<>>
  /\ UNCHANGED produtos

\* step 2 of a row: the retry by NOME, or keeping what the EAN attempt gave
SegueLinha(dados) ==
  IF TentaNome(dados)
  THEN IF NomeDe(df[i]) # <<>>
       THEN Chama(NomeDe(df[i]), NomeDe(df[i]), "nome") /\ UNCHANGED saida
       ELSE Anexa(IF dados = DictVazio THEN NaoEncontrado(SEM_RESULTADOS) ELSE dados)
  ELSE Anexa(dados)

(***************************************************************************)
(* Actions                                                                 *)
(***************************************************************************)
\* df.columns = [c.upper().strip() for c in df.columns]
Colunas(columns) == [j \in 1..Len(columns) |-> Strip(Upper(columns[j]))]
EAN_COL == <<"E","A","N">>
NOME_COL == <<"N","O","M","E">>
TemColuna(cols, c) == \E j \in 1..Len(cols) : cols[j] = c
\* ("EAN" not in df.columns) and ("NOME" not in df.columns)
SemColunas(cols) == ~TemColuna(cols, EAN_COL) /\ ~TemColuna(cols, NOME_COL)

\* the check of the columns that lets every table through
ErroDeEntradaNunca(cols) == FALSE

\* the raise of the ValueError: neither column, and not exactly one column
ErroDeEntrada(cols) == SemColunas(cols) /\ Len(cols) # 1
\* if df.shape[1] == 1: df.columns = ["NOME"]
ColunasAceitas(cols) == IF SemColunas(cols) /\ Len(cols) = 1 THEN <<NOME_COL>> ELSE cols
\* row.get(c, "")
Celula(cols, row, c) ==
  IF TemColuna(cols, c) THEN row[CHOOSE j \in 1..Len(cols) : cols[j] = c] ELSE Str(<<>>)
\* the rows of the copy, as the loop reads them
Copia(cols, rows) ==
  [j \in 1..Len(rows) |-> [EAN |-> Celula(cols, rows[j], EAN_COL),
                           NOME |-> Celula(cols, rows[j], NOME_COL)]]

\* processar_dataframe renaming the columns of the caller's table itself
IniciarSemCopia ==
  /\ pc = "start" /\ op = "processar_dataframe"
  /\ \E cols \in {Colunas(df_in.columns)} :
       IF ErroDeEntrada(cols)
       THEN /\ pc' = "erro_entrada"
            /\ df_in' = [df_in EXCEPT !.columns = cols]
            /\ UNCHANGED <<df, i>>
       ELSE /\ df_in' = [df_in EXCEPT !.columns = ColunasAceitas(cols)]
            /\ df' = Copia(ColunasAceitas(cols), df_in.rows)
            /\ i' = 1
            /\ pc' = "loop"
  /\ UNCHANGED <<servidor, modulo, catalogo, arg, res, troca, op, q, saida, att, t, nome_ref,
                 produtos, ret, hist, consultaram, tentativas, npausas>>

\* processar_dataframe up to the loop: the copy, the columns, the ValueError
Iniciar ==
  /\ pc = "start" /\ op = "processar_dataframe"
  /\ \E cols \in {Colunas(df_in.columns)} :
       IF ErroDeEntrada(cols)
       THEN /\ pc' = "erro_entrada"
            /\ UNCHANGED <<df, i>>
       ELSE /\ df' = Copia(ColunasAceitas(cols), df_in.rows)
            /\ i' = 1
            /\ pc' = "loop"
  /\ UNCHANGED <<fixos, troca, op, q, saida, att, t, nome_ref, produtos, ret, hist, consultaram,
                 tentativas, npausas>>

\* the start of one iteration: the empty row, or the first call of _consultar
IniciaLinha ==
  /\ pc = "loop" /\ i <= Len(df)
  /\ UNCHANGED tentativas
  /\ IF EhLinhaVazia(TermoDe(df[i]))
     THEN /\ saida' = Append(saida, LinhaSaida(df[i], NaoEncontrado(LINHA_VAZIA)))
          /\ i' = i + 1
          /\ UNCHANGED <<pc, att, t, nome_ref, produtos, ret, hist>>
     ELSE /\ i' = i
          /\ IF EanDe(df[i]) # <<>>
             THEN /\ Chama(EanDe(df[i]),
                           IF NomeDe(df[i]) # <<>> THEN NomeDe(df[i]) ELSE EanDe(df[i]), "ean")
                  /\ UNCHANGED saida
             ELSE SegueLinha(DictVazio)
  /\ UNCHANGED <<fixos, troca, op, df, q, consultaram, npausas>>

\* buscar_item up to its call of _consultar(q, q)
BuscarItem ==
  /\ pc = "start" /\ op = "buscar_item"
  /\ Chama(q, q, "q")
  /\ UNCHANGED <<fixos, troca, op, df, q, i, saida, consultaram, tentativas, npausas>>

\* what follows a search inside _consultar: the next step with the candidates
\* the try block left; an exception that escaped the try would end the call
AposBusca(s, proximo) ==
  IF s.exc
  THEN /\ ret' = Raise(<<"t","i","m","e","d"," ","o","u","t">>, DictVazio)
       /\ pc' = "returned"
       /\ produtos' = <<>>
  ELSE /\ produtos' = s.produtos
       /\ pc' = proximo
       /\ UNCHANGED ret

\* try: produtos = _search_term(t)
SearchTerm ==
  /\ pc = "search_term"
  /\ \E h \in catalogo : LET r == _search_term(h) IN
       /\ troca' = [fn |-> "_search_term", http |-> h, out |-> r]
       /\ hist' = Append(hist, Consulta("term", t, r))
       /\ AposBusca(TrySearch(r),
                    IF EanGate(TrySearch(r).produtos, t) THEN "search_ean"
                    ELSE IF SimplGate(TrySearch(r).produtos, t) THEN "search_simpl"
                    ELSE "fim")
  /\ consultaram' = consultaram \cup {i}
  /\ UNCHANGED <<fixos, op, df, q, i, saida, att, t, nome_ref, tentativas, npausas>>

\* try: produtos = _search_ean(t)
SearchEan ==
  /\ pc = "search_ean"
  /\ \E h \in catalogo : LET r == _search_ean(h) IN
       /\ troca' = [fn |-> "_search_ean", http |-> h, out |-> r]
       /\ hist' = Append(hist, Consulta("ean", t, r))
       /\ AposBusca(TrySearch(r),
                    IF SimplGate(TrySearch(r).produtos, t) THEN "search_simpl" ELSE "fim")
  /\ consultaram' = consultaram \cup {i}
  /\ UNCHANGED <<fixos, op, df, q, i, saida, att, t, nome_ref, tentativas, npausas>>

\* try: produtos = _search_term(t2)
SearchSimpl ==
  /\ pc = "search_simpl"
  /\ \E h \in catalogo : LET r == _search_term(h) IN
       /\ troca' = [fn |-> "_search_term", http |-> h, out |-> r]
       /\ hist' = Append(hist, Consulta("simpl", _term_simplify(t), r))
       /\ AposBusca(TrySearch(r), "fim")
  /\ consultaram' = consultaram \cup {i}
  /\ UNCHANGED <<fixos, op, df, q, i, saida, att, t, nome_ref, tentativas, npausas>>

\* the end of _consultar: it returns its result or raises, and its locals are gone
Finaliza ==
  /\ pc = "fim"
  /\ ret' = Desfecho(produtos, t, nome_ref)
  /\ pc' = "returned"
  /\ produtos' = <<>>
  /\ troca' = Nenhuma
  /\ UNCHANGED <<fixos, op, df, q, i, saida, att, t, nome_ref, hist, consultaram, tentativas,
                 npausas>>

\* buscar_item after _consultar: the one-row list, or the exception passed on
RetornaItem ==
  /\ pc = "returned" /\ att = "q"
  /\ IF ret.exc
     THEN pc' = "raised" /\ UNCHANGED saida
     ELSE /\ saida' = << [EAN |-> Str(IF IsDigit(q) THEN q ELSE <<>>),
                          NOME |-> Str(q),
                          Preco |-> Get(ret.val.Preco, NAO_ENCONTRADO),
                          Link |-> Get(ret.val.Link, <<>>),
                          Classificacao |-> Get(ret.val.Classificacao, TRAVESSAO),
                          Observacao |-> Get(ret.val.Observacao, TRAVESSAO)] >>
          /\ pc' = "done"
  /\ UNCHANGED <<fixos, troca, op, df, q, i, att, t, nome_ref, produtos, ret, hist, consultaram,
                 tentativas, npausas>>

\* the row after its EAN attempt returned or raised
AposEan ==
  /\ pc = "returned" /\ att = "ean"
  /\ tentativas' = Append(tentativas, [att |-> att, termo |-> t, ref |-> nome_ref, ret |-> ret,
                                   n |-> Len(hist)])
  /\ SegueLinha(DadosDe(ret))
  /\ UNCHANGED <<fixos, troca, op, df, q, i, consultaram, npausas>>

\* the NOME attempt made outside any try: its exception leaves the loop
AposNomePropaga ==
  /\ pc = "returned" /\ att = "nome"
  /\ tentativas' = Append(tentativas, [att |-> att, termo |-> t, ref |-> nome_ref, ret |-> ret,
                                   n |-> Len(hist)])
  /\ IF ret.exc
     THEN pc' = "raised" /\ UNCHANGED <<saida, att, ret, hist, t, nome_ref, produtos>>
     ELSE Anexa(DadosDe(ret))
  /\ UNCHANGED <<fixos, troca, op, df, q, i, consultaram, npausas>>

\* the row after its NOME attempt returned or raised
AposNome ==
  /\ pc = "returned" /\ att = "nome"
  /\ tentativas' = Append(tentativas, [att |-> att, termo |-> t, ref |-> nome_ref, ret |-> ret,
                                   n |-> Len(hist)])
  /\ Anexa(DadosDe(ret))
  /\ UNCHANGED <<fixos, troca, op, df, q, i, consultaram, npausas>>

\* the loop going on to the next row with no time.sleep
PausaOmitida ==
  /\ pc = "pause"
  /\ i' = i + 1
  /\ pc' = "loop"
  /\ UNCHANGED <<fixos, troca, op, df, q, saida, att, t, nome_ref, produtos, ret, hist, consultaram,
                 tentativas, npausas>>

\* time.sleep(PAUSA), then the next row
Pausa ==
  /\ pc = "pause"
  /\ npausas' = npausas + 1
  /\ consultaram' = {}
  /\ tentativas' = <<>>
  /\ i' = i + 1
  /\ pc' = "loop"
  /\ UNCHANGED <<fixos, troca, op, df, q, saida, att, t, nome_ref, produtos, ret, hist>>

\* return pd.DataFrame(saida, ...)
Retorna ==
  /\ pc = "loop" /\ i > Len(df)
  /\ pc' = "done"
  /\ UNCHANGED <<fixos, troca, op, df, q, i, saida, att, t, nome_ref, produtos, ret, hist, consultaram,
                 tentativas, npausas>>

Next ==
  \/ Iniciar
  \/ IniciaLinha
  \/ BuscarItem
  \/ SearchTerm
  \/ SearchEan
  \/ SearchSimpl
  \/ Finaliza
  \/ RetornaItem
  \/ AposEan
  \/ AposNome
  \/ Pausa
  \/ Retorna

Spec == Init /\ [][Next]_vars

\* every step that can be taken is taken in the end: the code runs one statement
\* after another, requests.get returns or raises within its 25 s timeout, and
\* time.sleep returns
SpecJusta == Spec /\ WF_vars(Next)

(***************************************************************************)
(* The scorer and the breadcrumb applied on their own                       *)
(***************************************************************************)
MaxCands == 2

SoNome(nome) == Produto(Str(nome), Absent, <<>>, <<>>, Absent, TRUE)
P_EXTRA_FORTE ==
  SoNome(<<"P","a","r","a","c","e","t","a","m","o","l"," ","7","5","0","m","g"," ","E","x","t","r","a"," ","F","o","r","t","e">>)
P_750 == SoNome(<<"P","a","r","a","c","e","t","a","m","o","l"," ","7","5","0","m","g">>)
P_500 == SoNome(<<"P","a","r","a","c","e","t","a","m","o","l"," ","5","0","0","m","g">>)
Candidatos == {P_EXTRA_FORTE, P_750, P_500, P_SEM_NOME, P_VAZIO}
Listas == UNION {[1..m -> Candidatos] : m \in 0..MaxCands}
Referencias == {<<>>, <<"P","A","R","A","C","E","T","A","M","O","L">>,
                <<"p","a","r","a","c","e","t","a","m","o","l"," ","7","5","0","m","g">>}

Arvores == {<<>>,
            <<Str(<<"I","n","í","c","i","o">>)>>,
            <<Str(<<" ","I","N","Í","C","I","O"," ">>), Str(MEDICAMENTOS), None, Str(ANALGESICOS)>>}
Caminhos == {<<>>,
             << <<"/">> >>,
             << <<"/","I","n","í","c","i","o","/">> >>,
             << <<"/","M","e","d","i","c","a","m","e","n","t","o","s","/">>,
                <<"/","M","e","d","i","c","a","m","e","n","t","o","s","/","D","o","r","-","e","-","F","e","b","r","e","/">> >>,
             << <<"/"," ","i","n","í","c","i","o","/","M","e","d","i","c","a","m","e","n","t","o","s","/">> >>}
Classificaveis == {Produto(Absent, Absent, tr, cs, Absent, TRUE) : tr \in Arvores, cs \in Caminhos}

Entradas ==
  {[f |-> "_best_match", lista |-> l, ref |-> r, prod |-> P_VAZIO] :
     l \in Listas, r \in Referencias}
  \cup {[f |-> "_breadcrumb", lista |-> <<>>, ref |-> <<>>, prod |-> p] : p \in Classificaveis}

InitFuncoes ==
  /\ catalogo = Respostas
  /\ arg \in Entradas
  /\ op = "-" /\ df_in = Tabela(<<>>, <<>>) /\ q = <<>>
  /\ Zerado
  /\ SemServidor

\* return sorted(lista, key=score)[0], None or the TypeError
AplicaBestMatch ==
  /\ arg.f = "_best_match" /\ res = SemRes
  /\ res' = [k |-> _best_match(arg.lista, arg.ref).k,
             j |-> _best_match(arg.lista, arg.ref).j, v |-> None]
  /\ UNCHANGED <<servidor, modulo, catalogo, df_in, arg, troca, op, df, q, i, pc, saida, att, t,
                 nome_ref, produtos, ret, hist, consultaram, tentativas, npausas>>

\* _breadcrumb(prod)
AplicaBreadcrumb ==
  /\ arg.f = "_breadcrumb" /\ res = SemRes
  /\ res' = [k |-> "str", j |-> 0, v |-> _breadcrumb(arg.prod)]
  /\ UNCHANGED <<servidor, modulo, catalogo, df_in, arg, troca, op, df, q, i, pc, saida, att, t,
                 nome_ref, produtos, ret, hist, consultaram, tentativas, npausas>>

NextFuncoes ==
  \/ AplicaBestMatch
  \/ AplicaBreadcrumb

SpecFuncoes == InitFuncoes /\ [][NextFuncoes]_vars

(***************************************************************************)
(* The code-only row: a batch of rows with one code and no name, against a *)
(* catalog that knows one product, by its code                             *)
(***************************************************************************)
TabelasCenario ==
  {Tabela(COLS_AMBAS, [j \in 1..m |-> <<Str(CODIGO), n>>]) :
     m \in 1..MaxRows, n \in {Str(<<>>), None}}

InitCenario ==
  /\ catalogo = RespostasCenario
  /\ arg = SemArg
  /\ op = "processar_dataframe" /\ df_in \in TabelasCenario /\ q = <<>>
  /\ Zerado
  /\ SemServidor

NextCenario ==
  \/ Iniciar
  \/ IniciaLinha
  \/ SearchTerm
  \/ SearchEan
  \/ Finaliza
  \/ AposEan
  \/ Pausa
  \/ Retorna

SpecCenario == InitCenario /\ [][NextCenario]_vars

\* ---------------------------------------------------------------------------
\* Batches against a catalog that does not change: every query of the run
\* gets the same exchange (requests.get, lines 60 and 64)
\* ---------------------------------------------------------------------------
CatalogosEstaveis == {{h} : h \in Respostas}

InitEstavel ==
  /\ catalogo \in CatalogosEstaveis
  /\ arg = SemArg
  /\ op = "processar_dataframe" /\ df_in \in Tabelas /\ q = <<>>
  /\ Zerado
  /\ SemServidor

NextEstavel ==
  \/ Iniciar
  \/ IniciaLinha
  \/ SearchTerm
  \/ SearchEan
  \/ SearchSimpl
  \/ Finaliza
  \/ AposEan
  \/ AposNome
  \/ Pausa
  \/ Retorna

SpecEstavel == InitEstavel /\ [][NextEstavel]_vars

(***************************************************************************)
(* The serving layer: Versões/05.09 09.44/main.py (03.09 11.40 has the     *)
(* same handlers)                                                          *)
(***************************************************************************)
MaxArquivos == 2

\* the variables of the resolution engine
nucleo == <<modulo, catalogo, df_in, arg, res, troca, op, df, q, i, pc, saida, att, t,
            nome_ref, produtos, ret, hist, consultaram, tentativas, npausas>>

\* the catalog answers the served requests get: nothing, the product, or the
\* candidate on which _best_match raises
CatalogoServidor ==
  {Http(FALSE, 200, TRUE, <<>>), Http(FALSE, 200, TRUE, <<P_CENARIO>>),
   Http(FALSE, 200, TRUE, <<P_SEM_NOME>>)}
\* the queries of /buscar
ConsultasServidor == {Entrada(CODIGO, FALSE, FALSE, Tabela(<<>>, <<>>))}
\* the files of /upload: a name that is not .xlsx, bytes that are no workbook,
\* a workbook without the columns, a workbook with one code-only row
Envios ==
  {Entrada(<<>>, FALSE, TRUE, Tabela(<<>>, <<>>)),
   Entrada(<<>>, TRUE, FALSE, Tabela(<<>>, <<>>)),
   Entrada(<<>>, TRUE, TRUE, Tabela(COLS_OUTRAS, <<>>)),
   Entrada(<<>>, TRUE, TRUE, Tabela(COLS_AMBAS, << <<Str(CODIGO), None>> >>))}

\* the requests a client can send
Pedidos ==
  {<<"buscar", e>> : e \in ConsultasServidor}
  \cup {<<"upload", e>> : e \in Envios}
  \cup {<<"baixar", SemEntrada>>}

Geradoras == {"buscar", "upload"}
\* the /buscar and /upload requests sent and not yet answered
EmCurso == {c \in Clientes : pedidos[c].rota \in Geradoras /\ pedidos[c].fase # "livre"}

\* what the resolved function returned: buscar_item a list of dicts,
\* processar_dataframe a DataFrame
Bruto == [tipo |-> IF op = "buscar_item" THEN "list" ELSE "DataFrame", linhas |-> saida]

\* _normalize_result: the list as it is, the DataFrame as its records
_normalize_result(obj) == obj.linhas

\* _mk: the price cell as a HYPERLINK formula when the row has a link
_mk(row) ==
  IF row.Link.v # <<>>
  THEN Str(<<"=","H","Y","P","E","R","L","I","N","K","(","\"">> \o row.Link.v
           \o <<"\"",",","\"">> \o row.Preco.v \o <<"\"",")">>)
  ELSE row.Preco

\* pd.DataFrame([{}]): one row with no columns
LinhaSemColunas ==
  [EAN |-> Absent, NOME |-> Absent, Preco |-> Absent, Link |-> Absent,
   Classificacao |-> Absent, Observacao |-> Absent]

\* _criar_xlsx: the workbook written for resultados
_criar_xlsx(resultados) ==
  IF resultados = <<>> THEN <<LinhaSemColunas>>
  ELSE [j \in 1..Len(resultados) |-> [resultados[j] EXCEPT !.Preco = _mk(resultados[j])]]

\* the resolution engine entered with op, or at rest with op "-": its locals
\* as a new call has them
Parte(o, tabela, consulta) ==
  /\ op' = o /\ df_in' = tabela /\ q' = consulta
  /\ pc' = "start"
  /\ troca' = Nenhuma
  /\ df' = <<>>
  /\ i' = 0
  /\ saida' = <<>>
  /\ att' = "-"
  /\ t' = <<>>
  /\ nome_ref' = <<>>
  /\ produtos' = <<>>
  /\ ret' = Ok(DictVazio)
  /\ hist' = <<>>
  /\ consultaram' = {}
  /\ tentativas' = <<>>
  /\ npausas' = 0
  /\ UNCHANGED <<modulo, catalogo, arg, res>>

\* the response of a handler, kept until the client has it
Responde(c, status, path, resultados) ==
  pedidos' = [pedidos EXCEPT ![c] = [@ EXCEPT !.fase = "respondido", !.status = status,
                                               !.path = path, !.resultados = resultados]]

\* a client sends a request (test_buscar, test_upload, test_baixar)
Pede(c) ==
  /\ pedidos[c].fase = "livre"
  /\ \E r \in Pedidos :
       /\ r[1] \in Geradoras => Len(arquivos) + Cardinality(EmCurso) < MaxArquivos
       /\ pedidos' = [pedidos EXCEPT ![c] = [SemPedido EXCEPT !.fase = "enviado", !.rota = r[1],
                                                          !.entrada = r[2],
                                                          !.guia = pedidos[c].guia]]
  /\ UNCHANGED <<nucleo, _LAST_XLSX_PATH, arquivos, laco, concluido>>

\* POST /buscar up to the call of buscar_item
Buscar(c) ==
  /\ pedidos[c].fase = "enviado" /\ pedidos[c].rota = "buscar"
  /\ laco = "-"
  /\ laco' = c
  /\ pedidos' = [pedidos EXCEPT ![c].fase = "handler"]
  /\ Parte("buscar_item", Tabela(<<>>, <<>>), pedidos[c].entrada.q)
  /\ UNCHANGED <<_LAST_XLSX_PATH, arquivos, concluido>>

\* POST /upload up to the call of processar_dataframe: 400 for a file that is
\* not .xlsx, 500 when read_excel raises
Upload(c) ==
  /\ pedidos[c].fase = "enviado" /\ pedidos[c].rota = "upload"
  /\ laco = "-"
  /\ IF ~pedidos[c].entrada.xlsx
     THEN Responde(c, 400, 0, <<>>) /\ UNCHANGED <<nucleo, laco>>
     ELSE IF ~pedidos[c].entrada.legivel
     THEN Responde(c, 500, 0, <<>>) /\ UNCHANGED <<nucleo, laco>>
     ELSE /\ laco' = c
          /\ pedidos' = [pedidos EXCEPT ![c].fase = "handler"]
          /\ Parte("processar_dataframe", pedidos[c].entrada.tabela, <<>>)
  /\ UNCHANGED <<_LAST_XLSX_PATH, arquivos, concluido>>

\* a handler that forgets the remembered file when the search fails
Erro500Esquece(c) ==
  /\ laco = c /\ pc \in {"raised", "erro_entrada"}
  /\ Responde(c, 500, 0, <<>>)
  /\ laco' = "-"
  /\ _LAST_XLSX_PATH' = 0
  /\ Parte("-", Tabela(<<>>, <<>>), <<>>)
  /\ UNCHANGED <<arquivos, concluido>>

\* except Exception: raise HTTPException(500): _responder is not reached
Erro500(c) ==
  /\ laco = c /\ pc \in {"raised", "erro_entrada"}
  /\ Responde(c, 500, 0, <<>>)
  /\ laco' = "-"
  /\ Parte("-", Tabela(<<>>, <<>>), <<>>)
  /\ UNCHANGED <<_LAST_XLSX_PATH, arquivos, concluido>>

\* _normalize_result and _responder: the workbook is written to a new
\* temporary file, its path remembered, the response built
Responder(c) ==
  /\ laco = c /\ pc = "done"
  /\ arquivos' = Append(arquivos, _criar_xlsx(_normalize_result(Bruto)))
  /\ _LAST_XLSX_PATH' = Len(arquivos) + 1
  /\ Responde(c, 200, Len(arquivos) + 1, _normalize_result(Bruto))
  /\ laco' = "-"
  /\ Parte("-", Tabela(<<>>, <<>>), <<>>)
  /\ UNCHANGED concluido

\* GET /baixar_resultado, in a worker thread: the test of line 196
BaixarTesta(c) ==
  /\ pedidos[c].fase = "enviado" /\ pedidos[c].rota = "baixar"
  /\ IF _LAST_XLSX_PATH = 0 \/ _LAST_XLSX_PATH > Len(arquivos)
     THEN Responde(c, 404, 0, <<>>)
     ELSE pedidos' = [pedidos EXCEPT ![c].fase = "testado"]
  /\ UNCHANGED <<nucleo, _LAST_XLSX_PATH, arquivos, laco, concluido>>

\* FileResponse(path=_LAST_XLSX_PATH): the global read again
BaixarServe(c) ==
  /\ pedidos[c].fase = "testado"
  /\ Responde(c, 200, _LAST_XLSX_PATH, <<>>)
  /\ UNCHANGED <<nucleo, _LAST_XLSX_PATH, arquivos, laco, concluido>>

\* the response reaches the client: the request is complete
Entrega(c) ==
  /\ pedidos[c].fase = "respondido"
  /\ LET gerou == pedidos[c].rota \in Geradoras /\ pedidos[c].status = 200
     IN  /\ pedidos' = [pedidos EXCEPT ![c] = [SemPedido EXCEPT !.guia =
                            IF gerou THEN pedidos[c].path
                            ELSE IF pedidos[c].rota \in Geradoras THEN 0
                            ELSE pedidos[c].guia]]
         /\ concluido' = IF gerou THEN pedidos[c].path ELSE concluido
  /\ UNCHANGED <<nucleo, _LAST_XLSX_PATH, arquivos, laco>>

InitServidor ==
  /\ catalogo = CatalogoServidor
  /\ arg = SemArg
  /\ op = "-" /\ df_in = Tabela(<<>>, <<>>) /\ q = <<>>
  /\ Zerado
  /\ SemServidor

NextServidor ==
  \/ \E c \in Clientes : Pede(c)
  \/ \E c \in Clientes : Buscar(c)
  \/ \E c \in Clientes : Upload(c)
  \/ \E c \in Clientes : Erro500(c)
  \/ \E c \in Clientes : Responder(c)
  \/ \E c \in Clientes : BaixarTesta(c)
  \/ \E c \in Clientes : BaixarServe(c)
  \/ \E c \in Clientes : Entrega(c)
  \/ Iniciar
  \/ IniciaLinha
  \/ BuscarItem
  \/ SearchTerm
  \/ SearchEan
  \/ Finaliza
  \/ RetornaItem
  \/ AposEan
  \/ Pausa
  \/ Retorna

SpecServidor == InitServidor /\ [][NextServidor]_vars

(***************************************************************************)
(* Properties                                                              *)
(***************************************************************************)
Batch == op = "processar_dataframe"
\* the searches of the call gave no candidate: each returned [] or failed
SemCandidatos == \A j \in 1..Len(hist) : hist[j].n <= 0
\* the searches one call makes for a term when every one of them gives nothing
Aplicaveis(termo) ==
  1 + (IF IsDigit(termo) /\ Len(termo) >= 8 THEN 1 ELSE 0)
    + (IF _term_simplify(termo) # termo THEN 1 ELSE 0)
\* the row just appended and the calls made for it, while control is at the pause
Sentinelas(row) ==
  /\ row.Preco = Str(NAO_ENCONTRADO)
  /\ row.Link = Str(<<>>)
  /\ row.Classificacao = Str(TRAVESSAO)

\* C1: in a call of _consultar whose first search, by term, returned at least
\* one candidate, the search by code and the search by the simplified term
\* are not made: the term search is the call's only query and control is not
\* at either of the two later searches.
C1_FallbackMonotonicity ==
  hist # <<>> =>
    /\ hist[1].kind = "term"
    /\ hist[1].n >= 1 =>
         /\ Len(hist) = 1
         /\ pc \notin {"search_ean", "search_simpl"}

\* a call has returned after a first search that gave candidates
C1_Witness == pc = "returned" /\ hist # <<>> /\ hist[1].n >= 1 /\ ~ret.exc

\* C2: a failed remote query never leaves _consultar as an exception: after
\* it the candidate list is empty and the chain goes on, so a call whose
\* searches all gave nothing has made every search applicable to its term and
\* returns the not-found result, and a call that raises has candidates from
\* its last search.
C2_FailureSwallowed ==
  /\ (hist # <<>> /\ hist[Len(hist)].n = -1 /\ pc \in {"search_ean", "search_simpl", "fim"})
       => produtos = <<>>
  /\ (pc = "returned" /\ ret.exc) => hist[Len(hist)].n >= 1
  /\ (pc \in {"fim", "returned"} /\ SemCandidatos) => Len(hist) = Aplicaveis(hist[1].term)
  /\ (pc = "returned" /\ SemCandidatos) => ret = Ok(NaoEncontrado(SEM_RESULTADOS))

\* a call returned a product after its first search failed
C2_Witness ==
  /\ pc = "returned" /\ Len(hist) = 2
  /\ hist[1].n = -1 /\ hist[2].n >= 1
  /\ ~ret.exc /\ ret.val.Observacao = Str(TRAVESSAO)

\* C3: the output of processar_dataframe has one row per input row, in the
\* input's order: row k carries the cleaned EAN of input row k and its
\* cleaned NOME, or the cleaned EAN where the NOME is blank; while the loop
\* runs the rows produced so far are those of the first input rows.
C3_RowOrder ==
  Batch =>
    /\ Len(saida) <= Len(df)
    /\ pc = "done" => Len(saida) = Len(df)
    /\ \A k \in 1..Len(saida) :
         /\ saida[k].EAN = Str(_limpa(df[k].EAN))
         /\ saida[k].NOME = Str(IF _limpa(df[k].NOME) # <<>> THEN _limpa(df[k].NOME)
                                ELSE _limpa(df[k].EAN))

\* a finished batch of an empty row followed by a row with a code and no name
C3_Witness ==
  /\ Batch /\ pc = "done" /\ Len(saida) = 2
  /\ saida[1].Observacao = Str(LINHA_VAZIA)
  /\ saida[2].NOME = saida[2].EAN /\ saida[2].EAN # Str(<<>>)
  /\ _limpa(df[2].NOME) = <<>>

\* C4 as stated: whenever a call of _consultar made for a row raised, the
\* row's result carries "Erro: <message>" and the not-found sentinels.
C4_Original ==
  (Batch /\ pc = "pause") =>
    \A j \in 1..Len(tentativas) :
      tentativas[j].ret.exc =>
        /\ saida[i].Observacao = Str(ERRO \o tentativas[j].ret.msg)
        /\ Sentinelas(saida[i])

\* C4, amended: an exception of _consultar never leaves processar_dataframe;
\* when the last call made for a row raised (the NOME retry, or the EAN
\* attempt of a row with no NOME) the row carries "Erro: <message>" and the
\* not-found sentinels; when the EAN attempt raised and the row has a NOME the
\* retry by NOME is made and decides the row; the loop goes on and the
\* finished batch has every row.
C4_ErrorIsolation ==
  Batch =>
    /\ pc # "raised"
    /\ pc = "done" => Len(saida) = Len(df)
    /\ pc = "pause" =>
         /\ Len(saida) = i
         /\ tentativas # <<>>
         /\ LET ultima == tentativas[Len(tentativas)]
            IN  /\ ultima.ret.exc =>
                     /\ saida[i].Observacao = Str(ERRO \o ultima.ret.msg)
                     /\ Sentinelas(saida[i])
                /\ (tentativas[1].ret.exc /\ tentativas[1].att = "ean"
                      /\ _limpa(df[i].NOME) # <<>>) =>
                     /\ Len(tentativas) = 2
                     /\ ~ultima.ret.exc =>
                          /\ saida[i].Observacao = ultima.ret.val.Observacao
                          /\ saida[i].Preco = ultima.ret.val.Preco
    /\ \A k \in 1..Len(saida) :
         (k < i /\ saida[k].Observacao = Str(ERRO \o MsgLenNone)) => Sentinelas(saida[k])

\* a finished batch whose first row ended in an error and whose second row
\* carries a priced product
C4_Witness ==
  /\ Batch /\ pc = "done" /\ Len(saida) = 2
  /\ saida[1].Observacao = Str(ERRO \o MsgLenNone)
  /\ saida[2].Observacao = Str(TRAVESSAO)
  /\ saida[2].Preco # Str(NAO_ENCONTRADO)

\* C5: whatever _consultar returns has the four fields Preco, Link,
\* Classificacao and Observacao, each a str; so has every row produced by
\* buscar_item and processar_dataframe, whose EAN and NOME are str too.
C5_TotalShape ==
  /\ (pc = "returned" /\ ~ret.exc) =>
       /\ ret.val.Preco.k = "str"
       /\ ret.val.Link.k = "str"
       /\ ret.val.Classificacao.k = "str"
       /\ ret.val.Observacao.k = "str"
  /\ \A k \in 1..Len(saida) :
       /\ saida[k].EAN.k = "str"
       /\ saida[k].NOME.k = "str"
       /\ saida[k].Preco.k = "str"
       /\ saida[k].Link.k = "str"
       /\ saida[k].Classificacao.k = "str"
       /\ saida[k].Observacao.k = "str"

\* a row built from a candidate that has no linkText
C5_Witness ==
  /\ pc = "done" /\ Len(saida) >= 1
  /\ saida[1].Observacao = Str(TRAVESSAO)
  /\ saida[1].Preco = Str(<<"R","$"," ","0",",","0","0">>)

\* C6: a row whose cleaned EAN and NOME are both empty gets Observacao
\* "Linha vazia" with the not-found sentinels, and issues no remote query:
\* no call of _consultar is recorded for it and it is never among the rows
\* that queried.
C6_EmptyRow ==
  Batch =>
    /\ \A k \in 1..Len(saida) :
         (_limpa(df[k].EAN) = <<>> /\ _limpa(df[k].NOME) = <<>>) =>
           /\ saida[k].Observacao = Str(LINHA_VAZIA)
           /\ Sentinelas(saida[k])
           /\ k \notin consultaram
    /\ \A k \in 1..Len(df) :
         (_limpa(df[k].EAN) = <<>> /\ _limpa(df[k].NOME) = <<>>) =>
           /\ k \notin consultaram
           /\ i = k => (pc = "loop" /\ tentativas = <<>> /\ hist = <<>>)

\* an empty row was produced right after a row that queried and paused
C6_Witness ==
  /\ Batch /\ Len(saida) = 2 /\ npausas = 1
  /\ saida[2].Observacao = Str(LINHA_VAZIA)
  /\ saida[1].Observacao # Str(LINHA_VAZIA)

\* C7: _consultar returns exactly Preco "Produto não encontrado", Link "",
\* Classificacao "—", Observacao "Sem resultados", without raising, when every
\* search it made gave no candidate (an empty list or a failure), and only
\* then.
C7_NotFoundIsData ==
  pc = "returned" =>
    /\ hist # <<>>
    /\ SemCandidatos <=>
         (~ret.exc /\ ret.val = Resultado(Str(NAO_ENCONTRADO), Str(<<>>), Str(TRAVESSAO),
                                          Str(SEM_RESULTADOS)))

\* a call returned not-found after two searches, one empty and one failed
C7_Witness ==
  /\ pc = "returned" /\ Len(hist) = 2
  /\ hist[1].n = 0 /\ hist[2].n = -1
  /\ ret = Ok(NaoEncontrado(SEM_RESULTADOS))

\* C8: for a row with a NOME, _consultar is run with term NOME and reference
\* NOME exactly when the EAN is empty or the EAN attempt ended with the
\* not-found Preco (a raised attempt included), and then its outcome is the
\* row's result; when the EAN attempt returned a priced product it is the
\* only call made for the row and its result is the row's result.  The EAN
\* attempt is run with term EAN and reference NOME, or EAN when NOME is blank.
C8_NameRetry ==
  (Batch /\ pc = "pause") =>
    LET ean == _limpa(df[i].EAN)
        nome == _limpa(df[i].NOME)
        porNome == {j \in 1..Len(tentativas) : tentativas[j].att = "nome"}
        porEan == {j \in 1..Len(tentativas) : tentativas[j].att = "ean"}
        semPreco(r) == r.exc \/ r.val.Preco = Str(NAO_ENCONTRADO)
        ultima == tentativas[Len(tentativas)]
    IN  /\ porEan = (IF ean # <<>> THEN {1} ELSE {})
        /\ \A j \in porEan :
             /\ tentativas[j].termo = ean
             /\ tentativas[j].ref = (IF nome # <<>> THEN nome ELSE ean)
        /\ \A j \in porNome :
             /\ tentativas[j].termo = nome
             /\ tentativas[j].ref = nome
             /\ j = Len(tentativas)
        /\ nome # <<>> =>
             (porNome # {} <=> (ean = <<>> \/ semPreco(tentativas[1].ret)))
        /\ nome = <<>> => porNome = {}
        /\ (ean # <<>> /\ ~semPreco(tentativas[1].ret)) =>
             /\ Len(tentativas) = 1
             /\ saida[i].Preco = tentativas[1].ret.val.Preco
             /\ saida[i].Link = tentativas[1].ret.val.Link
             /\ saida[i].Classificacao = tentativas[1].ret.val.Classificacao
             /\ saida[i].Observacao = tentativas[1].ret.val.Observacao
        /\ ~ultima.ret.exc =>
             /\ saida[i].Preco = ultima.ret.val.Preco
             /\ saida[i].Link = ultima.ret.val.Link
             /\ saida[i].Classificacao = ultima.ret.val.Classificacao
             /\ saida[i].Observacao = ultima.ret.val.Observacao

\* a row whose EAN attempt found nothing and whose retry by NOME found a product
C8_Witness ==
  /\ Batch /\ pc = "pause" /\ Len(tentativas) = 2
  /\ tentativas[1].att = "ean" /\ tentativas[1].ret = Ok(NaoEncontrado(SEM_RESULTADOS))
  /\ tentativas[2].att = "nome" /\ ~tentativas[2].ret.exc
  /\ saida[i].Preco # Str(NAO_ENCONTRADO)

\* C9: rows are processed one after another; every row that is not empty is
\* followed by one pause and an empty row by none, so the pauses taken are as
\* many as the non-empty rows finished; and the remote queries issued since
\* the last pause all belong to the row being processed, none being
\* outstanding when the loop turns to the next row.
C9_Throttling ==
  Batch =>
    /\ consultaram \subseteq {i}
    /\ pc \in {"loop", "done"} => consultaram = {}
    /\ pc \notin {"start", "erro_entrada"} =>
         Len(saida) = (IF pc = "pause" THEN i ELSE i - 1)
    /\ npausas = Cardinality({k \in 1..(i - 1) :
                                _limpa(df[k].EAN) # <<>> \/ _limpa(df[k].NOME) # <<>>})
    /\ pc \in {"search_term", "search_ean", "search_simpl", "fim", "returned", "pause"} =>
         (i <= Len(df) /\ (_limpa(df[i].EAN) # <<>> \/ _limpa(df[i].NOME) # <<>>))

\* the second row issues its first query after the pause that followed the
\* first row's queries
C9_Witness ==
  /\ Batch /\ pc = "search_ean" /\ i = 2
  /\ npausas = 1 /\ consultaram = {2}

\* C10: within _consultar the search by code is made exactly when the term
\* search gave no candidate (empty or failed) and the stripped term is all
\* digits and at least 8 long; it is the call's second query, made with the
\* stripped term; when it fails the candidate list is empty and the call
\* ends not-found.
C10_CodeSearchGate ==
  LET porCodigo == {j \in 1..Len(hist) : hist[j].kind = "ean"}
      devido == hist[1].n <= 0 /\ IsDigit(hist[1].term) /\ Len(hist[1].term) >= 8
  IN  hist # <<>> =>
        /\ hist[1].term = t
        /\ porCodigo \subseteq {2}
        /\ \A j \in porCodigo : hist[j].term = t
        /\ porCodigo # {} => devido
        /\ pc = "search_ean" <=> (devido /\ Len(hist) = 1)
        /\ pc \in {"search_simpl", "fim", "returned"} => (porCodigo # {} <=> devido)
        /\ (pc = "fim" /\ hist[Len(hist)].kind = "ean" /\ hist[Len(hist)].n = -1)
             => produtos = <<>>
        /\ (pc = "returned" /\ hist[Len(hist)].kind = "ean" /\ hist[Len(hist)].n = -1)
             => ret = Ok(NaoEncontrado(SEM_RESULTADOS))

\* a call whose code search failed has returned
C10_Witness ==
  /\ pc = "returned" /\ Len(hist) = 2
  /\ hist[2].kind = "ean" /\ hist[2].n = -1

\* C11: within _consultar the search by the simplified term is made exactly
\* when every earlier search of the call gave no candidate and the simplified
\* term differs from the stripped term; it is the call's last query, made with
\* the simplified term; a term that is nothing but a quantity simplifies to
\* itself, so no further search is made for it.
C11_SimplifiedGate ==
  LET porSimpl == {j \in 1..Len(hist) : hist[j].kind = "simpl"}
      antes == {j \in 1..Len(hist) : hist[j].kind # "simpl"}
      devido == (\A j \in antes : hist[j].n <= 0) /\ _term_simplify(t) # t
  IN  hist # <<>> =>
        /\ porSimpl \subseteq {Len(hist)}
        /\ \A j \in porSimpl :
             /\ hist[j].term = _term_simplify(t)
             /\ hist[j].term # t
             /\ \A k \in 1..(j - 1) : hist[k].n <= 0
        /\ pc = "search_simpl" => (devido /\ porSimpl = {})
        /\ pc \in {"fim", "returned"} => (porSimpl # {} <=> devido)
        /\ t = <<"5","0","0","m","g">> => (porSimpl = {} /\ _term_simplify(t) = t)
        /\ t = <<"D","i","p","i","r","o","n","a"," ","5","0","0","m","g">> =>
             \A j \in porSimpl : hist[j].term = <<"d","i","p","i","r","o","n","a">>

\* a call whose first search gave nothing has made the simplified search
C11_Witness ==
  /\ pc = "returned" /\ Len(hist) = 2
  /\ hist[1].n <= 0
  /\ hist[2].kind = "simpl" /\ hist[2].term = <<"d","i","p","i","r","o","n","a">>

\* nothing was done for any row: no query, no pause, no output row
NadaFeito ==
  /\ saida = <<>> /\ hist = <<>> /\ consultaram = {} /\ tentativas = <<>> /\ npausas = 0
  /\ troca = Nenhuma

C13_Original ==
  troca.fn # "-" =>
    /\ (troca.http.timeout \/ troca.http.status # 200 \/ ~troca.http.json) => ~troca.out.ok
    /\ troca.out.ok =>
         /\ ~troca.http.timeout /\ troca.http.status = 200 /\ troca.http.json
         /\ troca.out.items = troca.http.items

\* C14 as stated: whatever fields the candidates lack or hold as null, scoring
\* and extraction complete without raising, so the call of _consultar that got
\* candidates returns a result: it never raises.
C14_Original ==
  (pc = "returned" /\ hist # <<>>) =>
    /\ ~ret.exc
    /\ hist[Len(hist)].n > 0 => ret.val.Observacao \in {Str(TRAVESSAO), Str(SEM_MATCH)}

\* the display name a candidate is scored on: the empty name when it has none
NomeExibido(p) == IF p.productName.k = "str" THEN p.productName.v ELSE <<>>
\* how many tokens of the lower-cased reference occur in the lower-cased name
Contagem(p, ref) ==
  Cardinality({j \in 1..Len(Tokens(Lower(ref))) :
                 Contains(Lower(NomeExibido(p)), Tokens(Lower(ref))[j])})
\* r is the choice the claim describes for the list l and the reference ref
Selecao(l, ref, r) ==
  /\ r.k = "none" <=> l = <<>>
  /\ l # <<>> =>
       /\ r.k = "prod" /\ r.j \in 1..Len(l)
       /\ \A h \in 1..Len(l) : Contagem(l[h], ref) <= Contagem(l[r.j], ref)
       /\ \A h \in 1..Len(l) :
            Contagem(l[h], ref) = Contagem(l[r.j], ref) =>
              Len(NomeExibido(l[r.j])) <= Len(NomeExibido(l[h]))
       /\ \A h \in 1..(r.j - 1) :
            ~(/\ Contagem(l[h], ref) = Contagem(l[r.j], ref)
              /\ Len(NomeExibido(l[h])) = Len(NomeExibido(l[r.j])))
  /\ (l = <<P_EXTRA_FORTE, P_750>>
      /\ ref = <<"p","a","r","a","c","e","t","a","m","o","l"," ","7","5","0","m","g">>)
       => (r.k = "prod" /\ r.j = 2)

\* C15 as stated: for a non-empty list _best_match returns a candidate with the
\* most reference tokens in its name, the shortest name among those, the
\* earliest among those; it returns none only for the empty list; of
\* "Paracetamol 750mg Extra Forte" and "Paracetamol 750mg" with the reference
\* "paracetamol 750mg" it returns the second.
C15_Original ==
  (arg.f = "_best_match" /\ res # SemRes) => Selecao(arg.lista, arg.ref, res)

\* the same selection on the lists in which no display name is null
C15_SelecaoComNomes ==
  (/\ arg.f = "_best_match" /\ res # SemRes
   /\ \A h \in 1..Len(arg.lista) : arg.lista[h].productName.k # "null")
    => Selecao(arg.lista, arg.ref, res)

\* the segments of a path that may be shown: not empty, not the home marker
RECURSIVE Usaveis(_)
Usaveis(segs) ==
  IF segs = <<>> THEN <<>>
  ELSE LET seg == Strip(ReplaceChar(Head(segs), "-", " "))
       IN  IF seg # <<>> /\ Lower(seg) # INICIO
           THEN <<seg>> \o Usaveis(Tail(segs))
           ELSE Usaveis(Tail(segs))

\* C16 as stated: the breadcrumb has no segment equal to "início" in any case;
\* it is the tree's names joined by " > " when the tree gives any, otherwise
\* the usable segments of the longest category path, hyphens as spaces; and
\* when neither gives a usable segment it is the em dash, never the empty
\* string.
C16_Original ==
  (arg.f = "_breadcrumb" /\ res # SemRes) =>
    LET s == res.v.v
        nomes == SemInicioTree(SelectNomes(arg.prod.categoryTree))
        usaveis == IF arg.prod.categories = <<>> THEN <<>>
                   ELSE Usaveis(SplitOn(StripSlash(MaxLen(arg.prod.categories)), "/"))
    IN  /\ res.v.k = "str" /\ s # <<>>
        /\ ~Contains(SETA \o Lower(s) \o SETA, SETA \o INICIO \o SETA)
        /\ nomes # <<>> => s = Join(nomes, SETA)
        /\ (nomes = <<>> /\ usaveis # <<>>) => s = Join(usaveis, SETA)
        /\ (nomes = <<>> /\ usaveis = <<>>) => s = TRAVESSAO

\* the row being processed has the scenario's code and a blank name
LinhaCenario ==
  /\ i \in 1..Len(df)
  /\ _limpa(df[i].EAN) = CODIGO /\ _limpa(df[i].NOME) = <<>>
\* the call made for the code has returned, its term search having given
\* nothing and its code search one product
AchadoPorCodigo ==
  /\ pc = "returned" /\ att = "ean" /\ t = CODIGO
  /\ Len(hist) = 2
  /\ hist[1].kind = "term" /\ hist[1].n <= 0
  /\ hist[2].kind = "ean" /\ hist[2].n = 1

\* C17: for a row with the code 7891058014684 and no name, when the search by
\* code returns the one product priced 16.31 in the categories Início,
\* Medicamentos, Analgésicos, the call returns Preco "R$ 16,31" and
\* Classificacao "Medicamentos > Analgésicos", and the next step appends the
\* row's result with these values.
C17_CodeOnlyScenario ==
  [][(Batch /\ catalogo = RespostasCenario /\ LinhaCenario /\ AchadoPorCodigo) =>
       /\ ~ret.exc
       /\ ret.val.Preco = Str(<<"R","$"," ","1","6",",","3","1">>)
       /\ ret.val.Classificacao = Str(MEDICAMENTOS \o SETA \o ANALGESICOS)
       /\ pc' = "pause"
       /\ Len(saida') = i
       /\ saida'[i].EAN = Str(CODIGO)
       /\ saida'[i].Preco = Str(<<"R","$"," ","1","6",",","3","1">>)
       /\ saida'[i].Classificacao = Str(MEDICAMENTOS \o SETA \o ANALGESICOS)]_vars

\* the call for the scenario's row has found the product by its code
C17_Witness ==
  /\ Batch /\ catalogo = RespostasCenario /\ LinhaCenario /\ AchadoPorCodigo
  /\ ret.val.Preco = Str(<<"R","$"," ","1","6",",","3","1">>)

RECURSIVE Emitidas(_)
Emitidas(calls) ==
  IF calls = <<>> THEN 0 ELSE calls[1].n + Emitidas(Tail(calls))

\* C23: a call of _consultar issues one or two remote queries, never the code
\* search and the simplified-term search both; a batch row makes at most two
\* calls and so issues at most four remote queries between two pauses
C23_BoundedFanOut ==
  /\ Len(hist) <= 2
  /\ pc \in {"fim", "returned"} => Len(hist) >= 1
  /\ \A a, b \in 1..Len(hist) : ~(hist[a].kind = "ean" /\ hist[b].kind = "simpl")
  /\ \A a \in 1..Len(hist) :
       /\ hist[a].kind = "ean" => (IsDigit(t) /\ _term_simplify(t) = t)
       /\ hist[a].kind = "simpl" => ~IsDigit(t)
  /\ Batch =>
       /\ Len(tentativas) + (IF hist # <<>> THEN 1 ELSE 0) <= 2
       /\ \A j \in 1..Len(tentativas) : tentativas[j].n \in {1, 2}
       /\ Emitidas(tentativas) + Len(hist) <= 4

C23_Witness ==
  /\ Batch /\ pc = "pause" /\ Len(tentativas) = 2
  /\ tentativas[1].n = 2 /\ tentativas[2].n = 2 /\ Emitidas(tentativas) = 4

\* a result with a formatted price, a link and the neutral note
Achado(r) ==
  /\ r.Preco.k = "str" /\ Len(r.Preco.v) > 3 /\ SubSeq(r.Preco.v, 1, 3) = <<"R","$"," ">>
  /\ r.Link.k = "str" /\ r.Link.v # <<>>
  /\ r.Classificacao.k = "str"
  /\ r.Observacao = Str(TRAVESSAO)

\* a result with the not-found sentinels and one of the status notes
NaoAchado(r) ==
  /\ r.Preco = Str(NAO_ENCONTRADO)
  /\ r.Link = Str(<<>>)
  /\ r.Classificacao = Str(TRAVESSAO)
  /\ r.Observacao.k = "str"
  /\ \/ r.Observacao.v \in {SEM_RESULTADOS, SEM_MATCH, LINHA_VAZIA}
     \/ /\ Len(r.Observacao.v) >= Len(ERRO)
        /\ SubSeq(r.Observacao.v, 1, Len(ERRO)) = ERRO

\* Preco is the sentinel iff Link is empty iff Observacao is not the neutral note
Coerente(r) ==
  /\ (r.Preco = Str(NAO_ENCONTRADO)) <=> (r.Link = Str(<<>>))
  /\ (r.Link = Str(<<>>)) <=> (r.Observacao # Str(TRAVESSAO))
  /\ Achado(r) \/ NaoAchado(r)

\* C24: every result _consultar returns and every row processar_dataframe
\* produces either has a formatted price, a non-empty link and the note "EMDASH",
\* or has the not-found price, an empty link, the classification "EMDASH" and
\* one of the notes Sem resultados, Sem match, Linha vazia, Erro: ...
C24_FieldConsistency ==
  /\ (pc = "returned" /\ ~ret.exc) => Coerente(ret.val)
  /\ Batch => \A j \in 1..Len(saida) : Coerente(saida[j])

C24_Witness ==
  /\ Batch /\ pc = "done" /\ Len(saida) >= 2
  /\ Achado(saida[1])
  /\ NaoAchado(saida[2]) /\ saida[2].Observacao = Str(SEM_MATCH)

\* the step in which the handler of c's download decides between 404 and serving
DecideBaixar(c) ==
  pedidos[c].fase = "enviado" /\ pedidos[c].rota = "baixar" /\ pedidos'[c].fase # "enviado"

\* the step in which the handler of c's download builds its FileResponse
ServeBaixar(c) == pedidos[c].fase = "testado" /\ pedidos'[c].fase = "respondido"

\* the step in which c's /buscar or /upload is answered with an error
FalhaGeradora(c) ==
  /\ pedidos[c].rota \in Geradoras /\ pedidos[c].fase # "respondido"
  /\ pedidos'[c].fase = "respondido" /\ pedidos'[c].status # 200

C22_Original ==
  \A c \in Clientes :
    (pedidos[c].fase = "respondido" /\ pedidos[c].rota = "baixar" /\ pedidos[c].guia # 0) =>
      /\ pedidos[c].status = 200
      /\ arquivos[pedidos[c].path] = arquivos[pedidos[c].guia]

====
